---- MODULE Spec2Model ----
(***************************************************************************)
(* Release-event deduplication and time-of-day distribution of the         *)
(* pavilion availability analysers (pavilion_analyzer.py,                  *)
(* ireland_pavilion_corrected_analysis.py, scatter_plot_analyzer.py).      *)
(*                                                                         *)
(* Time is counted in whole seconds.  A log entry carries its UTC instant; *)
(* the loaders shift it by nine hours to JST.  A datetime is the number of *)
(* seconds since 00:00:00 of day 0, so that                                *)
(*   date   = t \div 86400,   hour = (t % 86400) \div 3600,                *)
(*   minute = (t % 3600) \div 60,   replace(second=0) = t - (t % 60).      *)
(* A "%H:%M" string is the pair <<hour, minute>>, a "HH:MM~HH:MM" label    *)
(* the 4-tuple <<hour, minute, end_hour, end_minute>>; None is <<>> and a  *)
(* value v that may be None is <<v>>.  A percentage count/total*100 is the *)
(* exact fraction [num |-> count*100, den |-> total].                      *)
(***************************************************************************)
EXTENDS Integers, Sequences, FiniteSets, TLC

VARIABLES
    log,                    \* availability_log.jsonl: the entries, in file order
    pc,                     \* which call has returned
    data,                   \* load_and_process_data's result
    interval_minutes,       \* the interval the deduplicator was called with
    raw_releases,           \* preprocess_*: status-0 records per pavilion, sorted
    filtered_releases,      \* preprocess_*: the retained records per pavilion
    removed_count,          \* preprocess_*: the rejected records per pavilion
    pavilion_distributions, \* calculate_release_time_distribution's / calculate_corrected_distribution's result
    sorted_items,           \* generate_distribution_table's / generate_corrected_report's ranked list per pavilion
    filtered_patterns,      \* analyze_daily_release_patterns' / analyze_release_patterns' result
    exception,              \* the exception the call ended in, "None" when it returned
    detailed_distributions, \* calculate_detailed_ireland_distribution's result
    minute_distributions,   \* save_minute_interval_distributions_json's result
    pending_pavilions,      \* preprocess_*: the pavilions whose loop has not finished
    release_index,          \* preprocess_*: the releases of the current pavilion already seen
    last_accepted_time      \* preprocess_*: last_release_time of the current pavilion's loop

\* The results of the 1-minute passes.
minute_vars == <<detailed_distributions, minute_distributions>>

\* The position of the deduplication loop.
loop_vars == <<pending_pavilions, release_index, last_accepted_time>>

vars == <<log, pc, data, interval_minutes, raw_releases, filtered_releases,
          removed_count, pavilion_distributions, sorted_items,
          filtered_patterns, exception, minute_vars, loop_vars>>

----------------------------------------------------------------------------
(* Bounds of the model *)

MaxLen == 3
MaxClusterLen == 4

(* Program constants *)

SecondsPerMinute == 60
SecondsPerHour == 60 * SecondsPerMinute
SecondsPerDay == 24 * SecondsPerHour
JstOffsetHours == 9
DailyThresholdMinutes == 10
DefaultIntervalMinutes == 15
BucketMinutes == 15
OpenHour == 10
CloseHour == 20

None == <<>>

----------------------------------------------------------------------------
(* datetime helpers *)

DateOf(t) == t \div SecondsPerDay
HourOf(t) == (t % SecondsPerDay) \div SecondsPerHour
MinuteOf(t) == (t % SecondsPerHour) \div SecondsPerMinute
\* t.replace(second=0, microsecond=0)
TruncateToMinute(t) == t - (t % SecondsPerMinute)
\* utc_time + timedelta(hours=9)
ToJst(utc) == utc + JstOffsetHours * SecondsPerHour

Range(s) == {s[i] : i \in 1..Len(s)}
Last(s) == s[Len(s)]
Front(s) == SubSeq(s, 1, Len(s) - 1)

RECURSIVE SelectSeqBy(_, _)
\* [x for x in s if x in keep], keeping the order
SelectSeqBy(s, keep) ==
    IF s = <<>> THEN <<>>
    ELSE IF Head(s) \in keep
         THEN <<Head(s)>> \o SelectSeqBy(Tail(s), keep)
         ELSE SelectSeqBy(Tail(s), keep)

RECURSIVE SumSeq(_)
SumSeq(s) == IF s = <<>> THEN 0 ELSE Head(s) + SumSeq(Tail(s))

----------------------------------------------------------------------------
(* pavilion_analyzer.py *)

PAVILION_NAMES == {"HEH0", "EDF0", "C060", "C063", "C066"}
target_pavilions == <<"C060", "C063", "C066", "HEH0", "EDF0">>

\* One entry of processed_data.
ProcessItem(item) ==
    LET jst_time == ToJst(item.timestamp) IN
    [timestamp     |-> jst_time,
     pavilion_code |-> item.pavilion_code,
     time_slot     |-> item.time_slot,
     status        |-> item.status,
     date          |-> DateOf(jst_time),
     exact_time    |-> TruncateToMinute(jst_time)]

RECURSIVE ProcessItems(_, _, _)
ProcessItems(items, start_date, end_date) ==
    IF items = <<>> THEN <<>>
    ELSE LET item == Head(items)
             d == DateOf(ToJst(item.timestamp))
             rest == ProcessItems(Tail(items), start_date, end_date)
         IN IF start_date # None /\ d < start_date[1] THEN rest
            ELSE IF end_date # None /\ d > end_date[1] THEN rest
            ELSE <<ProcessItem(item)>> \o rest

\* load_and_process_data(file_path, start_date, end_date); names is the
\* module's PAVILION_NAMES.
load_and_process_data(file, names, start_date, end_date) ==
    ProcessItems(SelectSeqBy(file, {e \in Range(file) : e.pavilion_code \in names}),
                 start_date, end_date)

RECURSIVE InsertSorted(_, _)
\* x placed after every element that is <= x
InsertSorted(s, x) ==
    IF s = <<>> THEN <<x>>
    ELSE IF Last(s) <= x THEN Append(s, x)
    ELSE Append(InsertSorted(Front(s), x), Last(s))

RECURSIVE sorted(_)
\* sorted(times)
sorted(times) ==
    IF times = <<>> THEN <<>>
    ELSE InsertSorted(sorted(Front(times)), Last(times))

RECURSIVE InsertByTimestamp_TiesReversed(_, _)
\* InsertByTimestamp placing x before the elements of its timestamp: a sort
\* that is not stable.
InsertByTimestamp_TiesReversed(s, x) ==
    IF s = <<>> THEN <<x>>
    ELSE IF Last(s).timestamp < x.timestamp THEN Append(s, x)
    ELSE Append(InsertByTimestamp_TiesReversed(Front(s), x), Last(s))

RECURSIVE InsertByTimestamp(_, _)
InsertByTimestamp(s, x) ==
    IF s = <<>> THEN <<x>>
    ELSE IF Last(s).timestamp <= x.timestamp THEN Append(s, x)
    ELSE Append(InsertByTimestamp(Front(s), x), Last(s))

\* SortByTimestamp without the sort.
SortByTimestamp_InputOrder(releases) == releases

RECURSIVE SortByTimestamp(_)
\* releases.sort(key=lambda x: x['timestamp']): a stable sort
SortByTimestamp(releases) ==
    IF releases = <<>> THEN <<>>
    ELSE InsertByTimestamp(SortByTimestamp(Front(releases)),
                           Last(releases))

\* ShouldAdd with the threshold taken as seconds, not minutes.
ShouldAdd_ThresholdInSeconds(time, filtered_times, threshold) ==
    \A k \in 1..Len(filtered_times) :
        LET diff == time - filtered_times[k]
            time_diff == IF diff < 0 THEN -diff ELSE diff
        IN ~(time_diff < threshold)

\* The all-retained test of one time against the times already kept
\* (lines 88-93); threshold is the literal 10 of the comparison.
ShouldAdd(time, filtered_times, threshold) ==
    \A k \in 1..Len(filtered_times) :
        LET diff == time - filtered_times[k]
            time_diff == IF diff < 0 THEN -diff ELSE diff
        IN ~(time_diff < threshold * SecondsPerMinute)

RECURSIVE FilterTimesSeen(_, _, _, _)
FilterTimesSeen(times, filtered_times, seen, threshold) ==
    IF times = <<>> THEN filtered_times
    ELSE FilterTimesSeen(Tail(times),
                         IF ShouldAdd(Head(times), seen, threshold)
                         THEN Append(filtered_times, Head(times))
                         ELSE filtered_times,
                         Append(seen, Head(times)),
                         threshold)

\* FilterTimes comparing a time with every earlier time, the rejected ones
\* included.
FilterTimes_AgainstRejectedToo(times, filtered_times, threshold) ==
    FilterTimesSeen(times, filtered_times, filtered_times, threshold)

RECURSIVE FilterTimes(_, _, _)
\* The loop over the sorted times of one pavilion and date (lines 86-96).
FilterTimes(times, filtered_times, threshold) ==
    IF times = <<>> THEN filtered_times
    ELSE FilterTimes(Tail(times),
                     IF ShouldAdd(Head(times), filtered_times, threshold)
                     THEN Append(filtered_times, Head(times))
                     ELSE filtered_times,
                     threshold)

\* Lines 83-98 for the times of one pavilion and date.
DedupAllRetained(times, threshold) == FilterTimes(sorted(times), <<>>, threshold)

RECURSIVE TimesOf(_, _, _)
\* pavilion_patterns[pavilion][date]: the exact_time of every item of the
\* pavilion and date, in data order
TimesOf(items, pavilion, date) ==
    IF items = <<>> THEN <<>>
    ELSE LET rest == TimesOf(Tail(items), pavilion, date) IN
         IF Head(items).pavilion_code = pavilion /\ Head(items).date = date
         THEN <<Head(items).exact_time>> \o rest
         ELSE rest

\* analyze_daily_release_patterns(data): a dict pavilion -> date -> times
analyze_daily_release_patterns(items) ==
    [pavilion \in {i.pavilion_code : i \in Range(items)} |->
        [date \in {i.date : i \in {j \in Range(items) : j.pavilion_code = pavilion}} |->
            DedupAllRetained(TimesOf(items, pavilion, date), DailyThresholdMinutes)]]

\* The status-0 items of one target pavilion, in data order (lines 108-110).
CollectReleases(items, pavilion_code) ==
    SelectSeqBy(items, {i \in Range(items) :
                          /\ i.pavilion_code = pavilion_code
                          /\ i.status = 0})

\* IsValidRelease with the interval taken as seconds, not minutes.
IsValidRelease_IntervalInSeconds(current_time, last_release_time, interval) ==
    \/ last_release_time = None
    \/ (current_time - last_release_time[1]) >= interval

\* IsValidRelease with the interval taken as hours, not minutes.
IsValidRelease_IntervalInHours(current_time, last_release_time, interval) ==
    \/ last_release_time = None
    \/ (current_time - last_release_time[1]) >= interval * SecondsPerHour

\* The test of lines 135-136: the record is a valid release.
IsValidRelease(current_time, last_release_time, interval) ==
    \/ last_release_time = None
    \/ (current_time - last_release_time[1]) >= interval * SecondsPerMinute

RECURSIVE DedupLoop_LastNotUpdated(_, _, _, _)
\* DedupLoop without `last_release_time = current_time` once it is set: every
\* record is compared with the first accepted one.
DedupLoop_LastNotUpdated(releases, last_release_time, interval, acc) ==
    IF releases = <<>> THEN acc
    ELSE LET release == Head(releases)
             current_time == release.timestamp
         IN IF IsValidRelease(current_time, last_release_time, interval)
            THEN DedupLoop_LastNotUpdated(Tail(releases),
                     IF last_release_time = None THEN <<current_time>>
                     ELSE last_release_time,
                     interval, [acc EXCEPT !.filtered = Append(@, release)])
            ELSE DedupLoop_LastNotUpdated(Tail(releases), last_release_time, interval,
                     [acc EXCEPT !.removed = @ + 1])

RECURSIVE DedupLoop_MinuteRecords(_, _, _, _)
\* DedupLoop appending a copy of the record with its timestamp cut to the
\* minute.
DedupLoop_MinuteRecords(releases, last_release_time, interval, acc) ==
    IF releases = <<>> THEN acc
    ELSE LET release == Head(releases)
             current_time == release.timestamp
         IN IF IsValidRelease(current_time, last_release_time, interval)
            THEN DedupLoop_MinuteRecords(Tail(releases), <<current_time>>, interval,
                     [acc EXCEPT !.filtered =
                         Append(@, [release EXCEPT !.timestamp = TruncateToMinute(@)])])
            ELSE DedupLoop_MinuteRecords(Tail(releases), last_release_time, interval,
                     [acc EXCEPT !.removed = @ + 1])

RECURSIVE DedupLoop_DuplicateTimesSkipped(_, _, _, _)
\* DedupLoop passing over a record with the time of the last accepted one
\* before the test, neither appending nor counting it.
DedupLoop_DuplicateTimesSkipped(releases, last_release_time, interval, acc) ==
    IF releases = <<>> THEN acc
    ELSE LET release == Head(releases)
             current_time == release.timestamp
         IN IF last_release_time = <<current_time>>
            THEN DedupLoop_DuplicateTimesSkipped(Tail(releases), last_release_time,
                                                 interval, acc)
            ELSE IF IsValidRelease(current_time, last_release_time, interval)
            THEN DedupLoop_DuplicateTimesSkipped(Tail(releases), <<current_time>>, interval,
                     [acc EXCEPT !.filtered = Append(@, release)])
            ELSE DedupLoop_DuplicateTimesSkipped(Tail(releases), last_release_time, interval,
                     [acc EXCEPT !.removed = @ + 1])

RECURSIVE DedupLoop_KeepsLatestOfBurst(_, _, _, _)
\* DedupLoop that, on a rejection, puts the rejected record in the place of
\* the record last appended.
DedupLoop_KeepsLatestOfBurst(releases, last_release_time, interval, acc) ==
    IF releases = <<>> THEN acc
    ELSE LET release == Head(releases)
             current_time == release.timestamp
         IN IF IsValidRelease(current_time, last_release_time, interval)
            THEN DedupLoop_KeepsLatestOfBurst(Tail(releases), <<current_time>>, interval,
                     [acc EXCEPT !.filtered = Append(@, release)])
            ELSE DedupLoop_KeepsLatestOfBurst(Tail(releases), last_release_time, interval,
                     [acc EXCEPT !.filtered = Append(Front(@), release),
                                 !.removed = @ + 1])

RECURSIVE DedupLoop(_, _, _, _)
\* The loop body of lines 131-141 over the rest of the releases.
DedupLoop(releases, last_release_time, interval, acc) ==
    IF releases = <<>> THEN acc
    ELSE LET release == Head(releases)
             current_time == release.timestamp
         IN IF IsValidRelease(current_time, last_release_time, interval)
            THEN DedupLoop(Tail(releases), <<current_time>>, interval,
                           [acc EXCEPT !.filtered = Append(@, release)])
            ELSE DedupLoop(Tail(releases), last_release_time, interval,
                           [acc EXCEPT !.removed = @ + 1])

\* DedupLastAccepted with last_release_time started at the first record's
\* time, which is then never appended.
DedupLastAccepted_FirstAsLast(releases, interval) ==
    DedupLoop(releases,
              IF releases = <<>> THEN None ELSE <<Head(releases).timestamp>>,
              interval, [filtered |-> <<>>, removed |-> 0])

\* Lines 125-141 for one pavilion: last_release_time starts as None.
DedupLastAccepted(releases, interval) ==
    DedupLoop(releases, None, interval, [filtered |-> <<>>, removed |-> 0])

RECURSIVE CarriedLoops(_, _, _, _)
\* The loops of the pavilions one after the other, last_release_time not
\* reset in between.
CarriedLoops(codes, raw, last_release_time, interval) ==
    IF codes = <<>> THEN <<>>
    ELSE LET acc == DedupLoop(raw[Head(codes)], last_release_time, interval,
                              [filtered |-> <<>>, removed |-> 0])
             carried == IF acc.filtered = <<>> THEN last_release_time
                        ELSE <<Last(acc.filtered).timestamp>>
         IN <<acc>> \o CarriedLoops(Tail(codes), raw, carried, interval)

\* preprocess_releases_for_distribution with `last_release_time = None` set
\* once before the loop over the pavilions instead of once per pavilion.
preprocess_releases_for_distribution_LastCarried(items, interval) ==
    LET raw == [code \in Range(target_pavilions) |->
                   SortByTimestamp(CollectReleases(items, code))]
        loops == CarriedLoops(target_pavilions, raw, None, interval)
        IndexOf(code) == CHOOSE i \in 1..Len(target_pavilions) : target_pavilions[i] = code
    IN [raw_releases      |-> raw,
        filtered_releases |-> [code \in Range(target_pavilions) |->
                                  loops[IndexOf(code)].filtered],
        removed_count     |-> [code \in Range(target_pavilions) |->
                                  loops[IndexOf(code)].removed]]

\* preprocess_releases_for_distribution(data, interval_minutes): the three
\* dicts after the call, every target pavilion a key (the print loops read
\* raw_releases[code] and filtered_releases[code] of the defaultdicts).
preprocess_releases_for_distribution(items, interval) ==
    LET raw == [code \in Range(target_pavilions) |->
                   SortByTimestamp(CollectReleases(items, code))]
    IN [raw_releases      |-> raw,
        filtered_releases |-> [code \in Range(target_pavilions) |->
                                  DedupLastAccepted(raw[code], interval).filtered],
        removed_count     |-> [code \in Range(target_pavilions) |->
                                  DedupLastAccepted(raw[code], interval).removed]]

\* range(10, 20) x [0, 15, 30, 45]: the start times, in order (lines 166-182)
QuarterMinutes == <<0, 15, 30, 45>>
all_time_slots ==
    [i \in 1..((CloseHour - OpenHour) * Len(QuarterMinutes)) |->
        <<OpenHour + ((i - 1) \div Len(QuarterMinutes)),
          QuarterMinutes[((i - 1) % Len(QuarterMinutes)) + 1]>>]

\* The label start~end of a start time (lines 170-180).
TimeLabel(start) ==
    LET hour == start[1]
        minute == start[2]
        end_minute == minute + BucketMinutes
    IN IF end_minute >= 60
       THEN <<hour, minute, hour + 1, end_minute - 60>>
       ELSE <<hour, minute, hour, end_minute>>

all_time_labels == [i \in 1..Len(all_time_slots) |-> TimeLabel(all_time_slots[i])]

\* TimeGroup without the rounding of the minutes.
TimeGroup_Unrounded(jst_time) == <<HourOf(jst_time), MinuteOf(jst_time)>>

\* TimeGroup rounding to the nearest quarter hour instead of down.
TimeGroup_NearestQuarter(jst_time) ==
    LET nearest == ((jst_time % SecondsPerDay) + 450) \div 900 IN
    <<nearest \div 4, (nearest % 4) * 15>>

\* jst_time.replace(minute=(minute // 15) * 15, second=0).strftime('%H:%M')
TimeGroup(jst_time) ==
    <<HourOf(jst_time), (MinuteOf(jst_time) \div BucketMinutes) * BucketMinutes>>

\* time_groups[slot] after the loop of lines 197-206
TimeGroupCount(pavilion_data, slot) ==
    Cardinality({k \in 1..Len(pavilion_data) :
                    /\ TimeGroup(pavilion_data[k].timestamp) = slot
                    /\ TimeGroup(pavilion_data[k].timestamp) \in Range(all_time_slots)})

\* count / total_releases * 100 if total_releases > 0 else 0
Percentage(count, total_releases) ==
    IF total_releases > 0
    THEN [num |-> count * 100, den |-> total_releases]
    ELSE [num |-> 0, den |-> 1]

\* IsSkipped with both tests left out.
IsSkipped_Never(pavilion_data) == FALSE

\* The two tests that leave a pavilion out of the result (lines 190-191, 208-209).
IsSkipped(pavilion_data) == pavilion_data = <<>> \/ Len(pavilion_data) = 0

\* DistributionOf with the buckets of count 0 left out.
DistributionOf_NonZeroOnly(pavilion_data) ==
    LET total_releases == Len(pavilion_data)
        used == SelectSeqBy(all_time_slots,
                            {slot \in Range(all_time_slots) :
                                TimeGroupCount(pavilion_data, slot) > 0})
    IN [total_releases |-> total_releases,
        distribution   |-> [i \in 1..Len(used) |->
                               LET count == TimeGroupCount(pavilion_data, used[i]) IN
                               [label      |-> TimeLabel(used[i]),
                                count      |-> count,
                                percentage |-> Percentage(count, total_releases)]],
        time_labels    |-> all_time_labels]

\* DistributionOf with total_releases counting the releases of 10:00-20:00
\* only.
DistributionOf_InWindowTotal(pavilion_data) ==
    LET total_releases ==
            Cardinality({k \in 1..Len(pavilion_data) :
                            TimeGroup(pavilion_data[k].timestamp) \in Range(all_time_slots)})
    IN [total_releases |-> total_releases,
        distribution   |-> [i \in 1..Len(all_time_slots) |->
                               LET count == TimeGroupCount(pavilion_data, all_time_slots[i]) IN
                               [label      |-> all_time_labels[i],
                                count      |-> count,
                                percentage |-> Percentage(count, total_releases)]],
        time_labels    |-> all_time_labels]

\* The value stored for one pavilion (lines 193-227).
DistributionOf(pavilion_data) ==
    LET total_releases == Len(pavilion_data) IN
    [total_releases |-> total_releases,
     distribution   |-> [i \in 1..Len(all_time_slots) |->
                            LET count == TimeGroupCount(pavilion_data, all_time_slots[i]) IN
                            [label      |-> all_time_labels[i],
                             count      |-> count,
                             percentage |-> Percentage(count, total_releases)]],
     time_labels    |-> all_time_labels]

\* calculate_release_time_distribution(data), given the dict that its call of
\* preprocess_releases_for_distribution(data) returned.
calculate_release_time_distribution(filtered) ==
    [pavilion_code \in {c \in Range(target_pavilions) :
                            /\ c \in PAVILION_NAMES
                            /\ ~IsSkipped(filtered[c])} |->
        DistributionOf(filtered[pavilion_code])]

\* a.percentage >= b.percentage, on the exact fractions
PercentageGeq(a, b) == a.num * b.den >= b.num * a.den
PercentageGt(a, b) == a.num * b.den > b.num * a.den
PercentagePositive(a) == a.num > 0

RECURSIVE InsertByPercentage_TiesReversed(_, _)
\* InsertByPercentage placing x before the entries of equal percentage.
InsertByPercentage_TiesReversed(s, x) ==
    IF s = <<>> THEN <<x>>
    ELSE IF PercentageGt(Last(s).percentage, x.percentage) THEN Append(s, x)
    ELSE Append(InsertByPercentage_TiesReversed(Front(s), x), Last(s))

RECURSIVE InsertByPercentage(_, _)
\* x placed after every entry whose percentage is >= its own
InsertByPercentage(s, x) ==
    IF s = <<>> THEN <<x>>
    ELSE IF PercentageGeq(Last(s).percentage, x.percentage) THEN Append(s, x)
    ELSE Append(InsertByPercentage(Front(s), x), Last(s))

RECURSIVE SortByPercentage(_)
\* sorted(items, key=lambda x: x[1]['percentage'], reverse=True): stable, so
\* entries of equal percentage keep the order of items
SortByPercentage(items) ==
    IF items = <<>> THEN <<>>
    ELSE InsertByPercentage(SortByPercentage(Front(items)), Last(items))

\* The ranked list of one distribution (lines 322-326).
RankedItems(distribution) ==
    SortByPercentage(SelectSeqBy(distribution,
        {e \in Range(distribution) : PercentagePositive(e.percentage)}))

\* generate_distribution_table(pavilion_distributions): sorted_items of every
\* pavilion it prints
generate_distribution_table(distributions) ==
    [pavilion_code \in {c \in Range(target_pavilions) : c \in DOMAIN distributions} |->
        RankedItems(distributions[pavilion_code].distribution)]

ireland_pavilions == <<"C060", "C063", "C066">>

\* range(10, 20) x range(60): the "HH:MM" of every minute, in order
\* (lines 354-360)
all_minute_slots ==
    [i \in 1..((CloseHour - OpenHour) * 60) |->
        <<OpenHour + ((i - 1) \div 60), (i - 1) % 60>>]

\* The slots as a set, for `time_group in all_minute_slots`.
all_minute_slot_set == Range(all_minute_slots)

\* MinuteGroup rounded down to the quarter hour.
MinuteGroup_Quarter(jst_time) ==
    <<HourOf(jst_time), (MinuteOf(jst_time) \div 15) * 15>>

\* jst_time.replace(second=0, microsecond=0).strftime('%H:%M')
MinuteGroup(jst_time) == <<HourOf(jst_time), MinuteOf(jst_time)>>

\* time_groups[minute_slot] after the loop of lines 375-382
DetailedGroupCount(pavilion_data, minute_slot) ==
    Cardinality({k \in 1..Len(pavilion_data) :
                    /\ MinuteGroup(pavilion_data[k].timestamp) = minute_slot
                    /\ MinuteGroup(pavilion_data[k].timestamp) \in all_minute_slot_set})

\* The value stored for one pavilion (lines 371-403).
DetailedDistributionOf(pavilion_data) ==
    LET total_releases == Len(pavilion_data) IN
    [total_releases |-> total_releases,
     distribution   |-> [i \in 1..Len(all_minute_slots) |->
                            LET count == DetailedGroupCount(pavilion_data, all_minute_slots[i]) IN
                            [label      |-> all_minute_slots[i],
                             count      |-> count,
                             percentage |-> Percentage(count, total_releases)]],
     minute_labels  |-> all_minute_slots]

\* calculate_detailed_ireland_distribution(data), given the dict that its
\* call of preprocess_releases_for_distribution(data, interval_minutes=15)
\* returned.
calculate_detailed_ireland_distribution(filtered) ==
    [pavilion_code \in {c \in Range(ireland_pavilions) :
                            /\ c \in PAVILION_NAMES
                            /\ ~IsSkipped(filtered[c])} |->
        DetailedDistributionOf(filtered[pavilion_code])]

RECURSIVE CountedMinuteGroups(_)
\* The time_group of every item that passes `10 <= hour < 20`, in the order
\* of the loop (lines 432-440).
CountedMinuteGroups(pavilion_data) ==
    IF pavilion_data = <<>> THEN <<>>
    ELSE LET jst_time == Head(pavilion_data).timestamp
             hour == HourOf(jst_time)
             rest == CountedMinuteGroups(Tail(pavilion_data))
         IN IF OpenHour <= hour /\ hour < CloseHour
            THEN <<MinuteGroup(jst_time)>> \o rest
            ELSE rest

RECURSIVE DictKeys(_, _)
\* The keys of a dict in insertion order: each key once, at its first use.
DictKeys(uses, keys) ==
    IF uses = <<>> THEN keys
    ELSE DictKeys(Tail(uses),
                  IF Head(uses) \in Range(keys) THEN keys
                  ELSE Append(keys, Head(uses)))

\* SavedEntries with an entry for every minute of 10:00-20:00.
SavedEntries_AllMinutes(groups, total_releases) ==
    [i \in 1..Len(all_minute_slots) |->
        LET count == Cardinality({k \in 1..Len(groups) : groups[k] = all_minute_slots[i]}) IN
        [label      |-> all_minute_slots[i],
         count      |-> count,
         percentage |-> Percentage(count, total_releases)]]

\* distribution after the loop of lines 443-451: an entry for every key of
\* time_groups with count > 0, in the order of the keys.
SavedEntries(groups, total_releases) ==
    LET keys == DictKeys(groups, <<>>) IN
    [i \in 1..Len(keys) |->
        LET count == Cardinality({k \in 1..Len(groups) : groups[k] = keys[i]}) IN
        [label      |-> keys[i],
         count      |-> count,
         percentage |-> [num |-> count * 100, den |-> total_releases]]]

\* The value stored for one pavilion (lines 428-458).
MinuteDistributionOf(pavilion_data) ==
    LET total_releases == Len(pavilion_data) IN
    [total_releases |-> total_releases,
     distribution   |-> SavedEntries(CountedMinuteGroups(pavilion_data), total_releases)]

\* save_minute_interval_distributions_json(data), given the dict that its
\* call of preprocess_releases_for_distribution(data, interval_minutes=15)
\* returned: the dict it dumps and returns.
save_minute_interval_distributions_json(filtered) ==
    [pavilion_code \in {c \in Range(ireland_pavilions) :
                            /\ c \in PAVILION_NAMES
                            /\ filtered[c] # <<>>
                            /\ MinuteDistributionOf(filtered[c]).distribution # <<>>} |->
        MinuteDistributionOf(filtered[pavilion_code])]

----------------------------------------------------------------------------
(* ireland_pavilion_corrected_analysis.py *)

prediction_target_pavilions == <<"C060", "C063", "C066">>

RECURSIVE CollectPredictionReleases(_, _)
\* Lines 74-83 for one pavilion: the status-0 entries, parsed, in file order.
CollectPredictionReleases(entries, pavilion_code) ==
    IF entries = <<>> THEN <<>>
    ELSE LET entry == Head(entries)
             timestamp == ToJst(entry.timestamp)
             rest == CollectPredictionReleases(Tail(entries), pavilion_code)
         IN IF entry.pavilion_code = pavilion_code /\ entry.status = 0
            THEN <<[timestamp |-> timestamp,
                    time_slot |-> entry.time_slot,
                    date      |-> DateOf(timestamp),
                    time      |-> timestamp % SecondsPerDay]>> \o rest
            ELSE rest

\* preprocess_releases_for_prediction(data, interval_minutes)
preprocess_releases_for_prediction(entries, interval) ==
    LET raw == [code \in Range(prediction_target_pavilions) |->
                   SortByTimestamp(CollectPredictionReleases(entries, code))]
    IN [raw_releases      |-> raw,
        filtered_releases |-> [code \in Range(prediction_target_pavilions) |->
                                  DedupLastAccepted(raw[code], interval).filtered],
        removed_count     |-> [code \in Range(prediction_target_pavilions) |->
                                  DedupLastAccepted(raw[code], interval).removed]]

\* The label of lines 137-141 for a start time.
CorrectedLabel(hour, minute) ==
    <<hour, minute,
      IF minute < 45 THEN hour ELSE hour + 1,
      IF minute < 45 THEN minute + 15 ELSE 0>>

time_labels ==
    [i \in 1..((CloseHour - OpenHour) * Len(QuarterMinutes)) |->
        CorrectedLabel(OpenHour + ((i - 1) \div Len(QuarterMinutes)),
                       QuarterMinutes[((i - 1) % Len(QuarterMinutes)) + 1])]

\* Lines 154-169: the labels whose time_counts one release increments.
CountedRanges(release) ==
    LET hour == release.time \div SecondsPerHour
        minute == (release.time % SecondsPerHour) \div SecondsPerMinute
        interval_minute == (minute \div 15) * 15
        end_hour == IF interval_minute < 45 THEN hour ELSE hour + 1
    IN IF OpenHour <= hour /\ hour < CloseHour /\ end_hour < CloseHour
       THEN {CorrectedLabel(hour, interval_minute)}
       ELSE {}

\* time_counts.get(time_label, 0)
TimeCount(releases, time_label) ==
    Cardinality({k \in 1..Len(releases) : time_label \in CountedRanges(releases[k])})

\* The value stored for one pavilion (lines 147-186).
CorrectedDistributionOf(releases) ==
    LET total_releases == Len(releases) IN
    [total_releases |-> total_releases,
     distribution   |-> [i \in 1..Len(time_labels) |->
                            LET count == TimeCount(releases, time_labels[i]) IN
                            [label      |-> time_labels[i],
                             count      |-> count,
                             percentage |-> Percentage(count, total_releases)]],
     time_labels    |-> time_labels]

\* calculate_corrected_distribution(release_data)
calculate_corrected_distribution(release_data) ==
    [pavilion_code \in {c \in DOMAIN release_data : release_data[c] # <<>>} |->
        CorrectedDistributionOf(release_data[pavilion_code])]

\* generate_corrected_report(...): sorted_times of every pavilion (lines 313-323)
generate_corrected_report(corrected_distributions) ==
    [pavilion_code \in DOMAIN corrected_distributions |->
        RankedItems(corrected_distributions[pavilion_code].distribution)]

----------------------------------------------------------------------------
(* scatter_plot_analyzer.py *)

SCATTER_PAVILION_NAMES == {"HEH0", "EDF0"}

\* analyze_release_patterns(data): the same grouping and loop as
\* analyze_daily_release_patterns
analyze_release_patterns(items) ==
    [pavilion \in {i.pavilion_code : i \in Range(items)} |->
        [date \in {i.date : i \in {j \in Range(items) : j.pavilion_code = pavilion}} |->
            DedupAllRetained(TimesOf(items, pavilion, date), DailyThresholdMinutes)]]

----------------------------------------------------------------------------
(* The inputs *)

\* The JST instant of a day and a clock time, and the UTC instant logged for it.
Clock(day, hour, minute, second) ==
    day * SecondsPerDay + hour * SecondsPerHour + minute * SecondsPerMinute + second
Utc(jst) == jst - JstOffsetHours * SecondsPerHour

LogPavilions == {"C060", "HEH0"}
LogTimeSlots == {"1100"}

\* Around midnight, on two dates: gaps of 10 and 8 minutes within a date, of
\* 5, 13, 15 and 23 minutes across the dates.
NightTimes ==
    {Utc(Clock(1, 23, 45, 0)), Utc(Clock(1, 23, 55, 0)),
     Utc(Clock(2, 0, 0, 0)), Utc(Clock(2, 0, 8, 0))}

\* Around the business hours: the last second before the opening, the first
\* bucket's start, both ends of the second bucket on two dates, the last
\* bucket, and the closing time.
DayTimes ==
    {Utc(Clock(1, 9, 59, 59)), Utc(Clock(1, 10, 0, 0)), Utc(Clock(1, 10, 29, 59)),
     Utc(Clock(2, 10, 15, 0)), Utc(Clock(1, 19, 50, 0)), Utc(Clock(1, 20, 0, 0))}

Entries(pavilions, times, statuses) ==
    [pavilion_code : pavilions, timestamp : times,
     time_slot : LogTimeSlots, status : statuses]

NightEntries ==
    Entries(LogPavilions, NightTimes, {0})
        \cup Entries(LogPavilions, {Utc(Clock(1, 23, 55, 0)), Utc(Clock(2, 0, 0, 0))}, {1})
DayEntries ==
    Entries(LogPavilions, DayTimes, {0})
        \cup Entries({"C060"}, {Utc(Clock(1, 10, 0, 0))}, {1})

\* One morning of one date: the events 10:00, 10:05, 10:20, 10:21 and
\* 10:00, 10:12, 10:24 of C060, and an event of another pavilion.
ClusterTimes ==
    {Utc(Clock(1, 10, 0, 0)), Utc(Clock(1, 10, 5, 0)), Utc(Clock(1, 10, 12, 0)),
     Utc(Clock(1, 10, 20, 0)), Utc(Clock(1, 10, 21, 0)), Utc(Clock(1, 10, 24, 0))}
ClusterEntries ==
    Entries({"C060"}, ClusterTimes, {0})
        \cup Entries({"HEH0"}, {Utc(Clock(1, 10, 5, 0))}, {0})

\* Both ends of the business hours to the second, two events of one minute
\* on two dates, events 10 and 16 minutes after the opening, an event of a
\* pavilion without a 1-minute pass and a record that is no release.
MinuteTimes ==
    {Utc(Clock(2, 9, 59, 59)), Utc(Clock(1, 10, 0, 0)), Utc(Clock(2, 10, 0, 30)),
     Utc(Clock(1, 10, 10, 0)), Utc(Clock(1, 10, 16, 0)),
     Utc(Clock(1, 19, 59, 59)), Utc(Clock(1, 20, 0, 0))}
MinuteEntries ==
    Entries({"C060"}, MinuteTimes, {0})
        \cup Entries({"HEH0"}, {Utc(Clock(1, 10, 0, 0))}, {0})
        \cup Entries({"C060"}, {Utc(Clock(1, 10, 16, 0))}, {1})

\* Records of one timestamp that differ in their time_slot, two events 9
\* minutes 1 second apart in minutes 10 apart, an event of another pavilion
\* and a record that is no release.
TieTimeSlots == {"1100", "1200"}
TieTimes == {Utc(Clock(1, 10, 0, 0)), Utc(Clock(1, 10, 0, 59)), Utc(Clock(1, 10, 10, 0))}
TieEntries ==
    [pavilion_code : {"C060"}, timestamp : TieTimes,
     time_slot : TieTimeSlots, status : {0}]
        \cup Entries({"HEH0"}, {Utc(Clock(1, 10, 0, 0))}, {0})
        \cup Entries({"C060"}, {Utc(Clock(1, 10, 0, 0))}, {1})

\* The intervals the deduplicator is called with.
Intervals == {-15, 0, DailyThresholdMinutes, DefaultIntervalMinutes}

Logs(entries) == UNION {[1..n -> entries] : n \in 0..MaxLen}
ClusterLogs == UNION {[1..n -> ClusterEntries] : n \in 0..MaxClusterLen}

----------------------------------------------------------------------------
(* The state machine *)

InitLogs(logs) ==
    /\ log \in logs
    /\ pc = "start"
    /\ data = <<>>
    /\ interval_minutes = None
    /\ raw_releases = <<>>
    /\ filtered_releases = <<>>
    /\ removed_count = <<>>
    /\ pavilion_distributions = <<>>
    /\ sorted_items = <<>>
    /\ filtered_patterns = <<>>
    /\ exception = "None"
    /\ detailed_distributions = <<>>
    /\ minute_distributions = <<>>
    /\ pending_pavilions = <<>>
    /\ release_index = 0
    /\ last_accepted_time = None

InitWith(entries) == InitLogs(Logs(entries))

Init == InitWith(NightEntries)
InitDay == InitWith(DayEntries)
InitCluster == InitLogs(ClusterLogs)
InitMinute == InitWith(MinuteEntries)
InitLoop == InitWith(ClusterEntries)
InitTie == InitWith(TieEntries)

\* pavilion_analyzer.main up to the mode dispatch (lines 1736-1741)
Main_Load ==
    /\ pc = "start"
    /\ data' = load_and_process_data(log, PAVILION_NAMES, None, None)
    /\ pc' = IF data' = <<>> THEN "done" ELSE "loaded"
    /\ UNCHANGED <<log, interval_minutes, raw_releases, filtered_releases,
                   removed_count, pavilion_distributions, sorted_items,
                   filtered_patterns, exception, minute_vars, loop_vars>>

\* run_daily_analysis(data) (modes daily and both)
run_daily_analysis ==
    /\ pc = "loaded"
    /\ filtered_patterns' = analyze_daily_release_patterns(data)
    /\ pc' = "daily"
    /\ UNCHANGED <<log, data, interval_minutes, raw_releases, filtered_releases,
                   removed_count, pavilion_distributions, sorted_items, exception, minute_vars, loop_vars>>

\* run_distribution_analysis(data) (modes distribution and both)
run_distribution_analysis ==
    /\ pc \in {"loaded", "daily"}
    /\ LET status_0_data == SelectSeqBy(data, {i \in Range(data) : i.status = 0})
           pre == preprocess_releases_for_distribution(status_0_data, DefaultIntervalMinutes)
           distributions == calculate_release_time_distribution(pre.filtered_releases)
       IN IF status_0_data = <<>>
          THEN /\ pc' = "done"
               /\ UNCHANGED <<interval_minutes, raw_releases, filtered_releases,
                              removed_count, pavilion_distributions, sorted_items>>
          ELSE /\ pc' = "distribution"
               /\ interval_minutes' = <<DefaultIntervalMinutes>>
               /\ raw_releases' = pre.raw_releases
               /\ filtered_releases' = pre.filtered_releases
               /\ removed_count' = pre.removed_count
               /\ pavilion_distributions' = distributions
               /\ sorted_items' = IF DOMAIN distributions = {} THEN <<>>
                                  ELSE generate_distribution_table(distributions)
    /\ UNCHANGED <<log, data, filtered_patterns, exception, minute_vars, loop_vars>>

\* A call preprocess_releases_for_distribution(data, interval_minutes)
call_preprocess_releases_for_distribution ==
    /\ pc = "loaded"
    /\ \E i \in Intervals :
         LET pre == preprocess_releases_for_distribution(data, i) IN
         /\ interval_minutes' = <<i>>
         /\ raw_releases' = pre.raw_releases
         /\ filtered_releases' = pre.filtered_releases
         /\ removed_count' = pre.removed_count
    /\ pc' = "preprocessed"
    /\ UNCHANGED <<log, data, pavilion_distributions, sorted_items,
                   filtered_patterns, exception, minute_vars, loop_vars>>

\* A call preprocess_releases_for_prediction(data, interval_minutes) on the
\* entries load_data read
call_preprocess_releases_for_prediction ==
    /\ pc = "start"
    /\ \E i \in Intervals :
         LET pre == preprocess_releases_for_prediction(log, i) IN
         /\ interval_minutes' = <<i>>
         /\ raw_releases' = pre.raw_releases
         /\ filtered_releases' = pre.filtered_releases
         /\ removed_count' = pre.removed_count
    /\ pc' = "predicted"
    /\ UNCHANGED <<log, data, pavilion_distributions, sorted_items,
                   filtered_patterns, exception, minute_vars, loop_vars>>

\* ireland_pavilion_corrected_analysis.main (lines 388-430): the preprocessing,
\* the distribution and the report's ranking
corrected_main ==
    /\ pc = "start"
    /\ log # <<>>
    /\ LET pre == preprocess_releases_for_prediction(log, DefaultIntervalMinutes)
           corrected_distributions == calculate_corrected_distribution(pre.filtered_releases)
       IN /\ interval_minutes' = <<DefaultIntervalMinutes>>
          /\ raw_releases' = pre.raw_releases
          /\ filtered_releases' = pre.filtered_releases
          /\ removed_count' = pre.removed_count
          /\ pavilion_distributions' = corrected_distributions
          /\ sorted_items' = generate_corrected_report(corrected_distributions)
    /\ pc' = "corrected"
    /\ UNCHANGED <<log, data, filtered_patterns, exception, minute_vars, loop_vars>>

\* scatter_plot_analyzer.main: the load and analyze_release_patterns(data)
scatter_main ==
    /\ pc = "start"
    /\ data' = load_and_process_data(log, SCATTER_PAVILION_NAMES, None, None)
    /\ IF data' = <<>>
       THEN pc' = "done" /\ UNCHANGED filtered_patterns
       ELSE pc' = "scatter" /\ filtered_patterns' = analyze_release_patterns(data')
    /\ UNCHANGED <<log, interval_minutes, raw_releases, filtered_releases,
                   removed_count, pavilion_distributions, sorted_items, exception, minute_vars, loop_vars>>

\* run_ireland_detailed_analysis(data) (mode ireland-detailed)
run_ireland_detailed_analysis ==
    /\ pc = "loaded"
    /\ LET status_0_data == SelectSeqBy(data, {i \in Range(data) : i.status = 0})
           pre == preprocess_releases_for_distribution(status_0_data, DefaultIntervalMinutes)
       IN IF status_0_data = <<>>
          THEN /\ pc' = "done"
               /\ UNCHANGED <<interval_minutes, raw_releases, filtered_releases,
                              removed_count, minute_distributions>>
          ELSE /\ pc' = "ireland"
               /\ interval_minutes' = <<DefaultIntervalMinutes>>
               /\ raw_releases' = pre.raw_releases
               /\ filtered_releases' = pre.filtered_releases
               /\ removed_count' = pre.removed_count
               /\ minute_distributions' =
                      save_minute_interval_distributions_json(pre.filtered_releases)
    /\ UNCHANGED <<log, data, pavilion_distributions, sorted_items,
                   filtered_patterns, exception, detailed_distributions,
                   loop_vars>>

\* call_calculate_detailed_ireland_distribution with the deduplication run
\* again at the width of the fine buckets, 1 minute.
call_calculate_detailed_ireland_distribution_FineInterval ==
    /\ pc = "distribution"
    /\ LET pre == preprocess_releases_for_distribution(data, 1) IN
       /\ interval_minutes' = <<1>>
       /\ raw_releases' = pre.raw_releases
       /\ filtered_releases' = pre.filtered_releases
       /\ removed_count' = pre.removed_count
       /\ detailed_distributions' =
              calculate_detailed_ireland_distribution(pre.filtered_releases)
    /\ pc' = "detailed"
    /\ UNCHANGED <<log, data, pavilion_distributions, sorted_items,
                   filtered_patterns, exception, minute_distributions,
                   loop_vars>>

\* A call calculate_detailed_ireland_distribution(data) on the data whose
\* distribution analysis has run
call_calculate_detailed_ireland_distribution ==
    /\ pc = "distribution"
    /\ LET pre == preprocess_releases_for_distribution(data, DefaultIntervalMinutes) IN
       /\ interval_minutes' = <<DefaultIntervalMinutes>>
       /\ raw_releases' = pre.raw_releases
       /\ filtered_releases' = pre.filtered_releases
       /\ removed_count' = pre.removed_count
       /\ detailed_distributions' =
              calculate_detailed_ireland_distribution(pre.filtered_releases)
    /\ pc' = "detailed"
    /\ UNCHANGED <<log, data, pavilion_distributions, sorted_items,
                   filtered_patterns, exception, minute_distributions,
                   loop_vars>>

RECURSIVE SkipEmpty(_, _)
\* `if not releases: continue` (lines 126-127): the pavilions from the first
\* one that has releases
SkipEmpty(codes, raw) ==
    IF codes = <<>> THEN <<>>
    ELSE IF raw[Head(codes)] = <<>> THEN SkipEmpty(Tail(codes), raw)
    ELSE codes

\* The keys of raw_releases in the order of raw_releases.items() (line 125):
\* the pavilions with a release in the order they first occur in data
\* (line 110), then those the print loop of lines 117-118 added.
RawReleasesKeys(items) ==
    LET releases == SelectSeqBy(items, {i \in Range(items) :
                                  /\ i.pavilion_code \in Range(target_pavilions)
                                  /\ i.status = 0})
    IN DictKeys([k \in 1..Len(releases) |-> releases[k].pavilion_code]
                    \o target_pavilions, <<>>)

\* preprocess_releases_for_distribution(data, interval_minutes) up to its
\* loop over the pavilions (lines 104-123)
preprocess_begin ==
    /\ pc = "loaded"
    /\ \E i \in Intervals : interval_minutes' = <<i>>
    /\ raw_releases' = [code \in Range(target_pavilions) |->
                            SortByTimestamp(CollectReleases(data, code))]
    /\ filtered_releases' = [code \in Range(target_pavilions) |-> <<>>]
    /\ removed_count' = [code \in Range(target_pavilions) |-> 0]
    /\ pending_pavilions' = SkipEmpty(RawReleasesKeys(data), raw_releases')
    /\ release_index' = 0
    /\ last_accepted_time' = None
    /\ pc' = IF pending_pavilions' = <<>> THEN "preprocessed" ELSE "dedup"
    /\ UNCHANGED <<log, data, pavilion_distributions, sorted_items,
                   filtered_patterns, exception, minute_vars>>

\* One pass of the body of `for release in releases` (lines 131-141); after
\* the last release of a pavilion the loop of line 125 moves to the next
\* pavilion with releases and line 129 resets last_release_time, and after
\* the last pavilion the function returns.
preprocess_loop ==
    /\ pc = "dedup"
    /\ LET pavilion_code == Head(pending_pavilions)
           release == raw_releases[pavilion_code][release_index + 1]
           current_time == release.timestamp
           finished == release_index + 1 = Len(raw_releases[pavilion_code])
           rest == SkipEmpty(Tail(pending_pavilions), raw_releases)
       IN /\ IF IsValidRelease(current_time, last_accepted_time, interval_minutes[1])
             THEN /\ filtered_releases' =
                        [filtered_releases EXCEPT ![pavilion_code] = Append(@, release)]
                  /\ last_accepted_time' = IF finished THEN None ELSE <<current_time>>
                  /\ UNCHANGED removed_count
             ELSE /\ removed_count' = [removed_count EXCEPT ![pavilion_code] = @ + 1]
                  /\ last_accepted_time' = IF finished THEN None ELSE last_accepted_time
                  /\ UNCHANGED filtered_releases
          /\ IF finished
             THEN /\ pending_pavilions' = rest
                  /\ release_index' = 0
             ELSE /\ release_index' = release_index + 1
                  /\ UNCHANGED pending_pavilions
          /\ pc' = IF finished /\ rest = <<>> THEN "preprocessed" ELSE "dedup"
    /\ UNCHANGED <<log, data, interval_minutes, raw_releases, pavilion_distributions,
                   sorted_items, filtered_patterns, exception, minute_vars>>

Next ==
    \/ Main_Load
    \/ run_daily_analysis
    \/ run_distribution_analysis
    \/ call_preprocess_releases_for_distribution
    \/ call_preprocess_releases_for_prediction
    \/ corrected_main
    \/ scatter_main

\* The runs that compute a distribution: pavilion_analyzer.main in mode
\* distribution and ireland_pavilion_corrected_analysis.main.
NextDay ==
    \/ Main_Load
    \/ run_distribution_analysis
    \/ corrected_main

\* The calls of the deduplicator on the loaded data.
NextCluster ==
    \/ Main_Load
    \/ call_preprocess_releases_for_distribution

\* The runs that compute a distribution, the 1-minute ones included:
\* pavilion_analyzer.main in modes distribution and ireland-detailed, a call
\* of calculate_detailed_ireland_distribution and
\* ireland_pavilion_corrected_analysis.main.
NextMinute ==
    \/ Main_Load
    \/ run_distribution_analysis
    \/ run_ireland_detailed_analysis
    \/ call_calculate_detailed_ireland_distribution
    \/ corrected_main

\* A call of the deduplicator on the loaded data, one pass of its loop at a
\* time.
NextLoop ==
    \/ Main_Load
    \/ preprocess_begin
    \/ preprocess_loop

\* The daily analysis and calls of both deduplicators.
NextTie ==
    \/ Main_Load
    \/ run_daily_analysis
    \/ call_preprocess_releases_for_distribution
    \/ call_preprocess_releases_for_prediction

Spec == Init /\ [][Next]_vars
SpecDay == InitDay /\ [][NextDay]_vars
SpecCluster == InitCluster /\ [][NextCluster]_vars
SpecMinute == InitMinute /\ [][NextMinute]_vars
SpecLoop == InitLoop /\ [][NextLoop]_vars
SpecTie == InitTie /\ [][NextTie]_vars

----------------------------------------------------------------------------
(* The claims *)

\* The last-accepted deduplicator has run with a positive interval.
DedupRanPositive ==
    /\ pc \in {"preprocessed", "predicted", "distribution", "corrected"}
    /\ interval_minutes # None
    /\ interval_minutes[1] > 0

\* C1: with interval_minutes > 0, any two consecutive records of a list
\* returned by preprocess_releases_for_distribution or
\* preprocess_releases_for_prediction are at least interval_minutes * 60
\* seconds apart.
C1_MinimumSeparation ==
    DedupRanPositive =>
        \A code \in DOMAIN filtered_releases :
            \A k \in 1..(Len(filtered_releases[code]) - 1) :
                filtered_releases[code][k + 1].timestamp
                    - filtered_releases[code][k].timestamp
                  >= interval_minutes[1] * 60

\* A call with a positive interval that rejected a record and kept two.
C1_Witness ==
    /\ pc = "preprocessed"
    /\ interval_minutes[1] = DefaultIntervalMinutes
    /\ \E code \in DOMAIN filtered_releases :
         /\ Len(filtered_releases[code]) >= 2
         /\ removed_count[code] >= 1
         /\ Cardinality({r.timestamp : r \in Range(raw_releases[code])}) >= 3

\* C2: deduplication is idempotent: the last-accepted loop run again, with
\* the same positive interval, on the list it returned gives that list, and
\* the all-retained loop run again on the times it kept gives those times.
C2_Idempotence ==
    /\ DedupRanPositive =>
           \A code \in DOMAIN filtered_releases :
               /\ DedupLastAccepted(filtered_releases[code], interval_minutes[1]).filtered
                     = filtered_releases[code]
               /\ DedupLastAccepted(filtered_releases[code], interval_minutes[1]).removed = 0
    /\ pc \in {"daily", "scatter", "distribution"} =>
           \A pavilion \in DOMAIN filtered_patterns :
               \A date \in DOMAIN filtered_patterns[pavilion] :
                   DedupAllRetained(filtered_patterns[pavilion][date], DailyThresholdMinutes)
                     = filtered_patterns[pavilion][date]

\* Both loops have rejected a record of the same run and kept others.
C2_Witness ==
    /\ pc = "distribution"
    /\ \E code \in DOMAIN filtered_releases :
         /\ Len(filtered_releases[code]) >= 2
         /\ removed_count[code] >= 1
    /\ \E pavilion \in DOMAIN filtered_patterns :
         \E date \in DOMAIN filtered_patterns[pavilion] :
             /\ Len(filtered_patterns[pavilion][date]) >= 1
             /\ Len(TimesOf(data, pavilion, date)) > Len(filtered_patterns[pavilion][date])

\* The sum of the bucket counts of one pavilion's result.
CountSum(result) ==
    SumSeq([i \in 1..Len(result.distribution) |-> result.distribution[i].count])
\* The sum of the numerators of its percentages, all over total_releases.
PercentageNumSum(result) ==
    SumSeq([i \in 1..Len(result.distribution) |-> result.distribution[i].percentage.num])

\* The time of day of a retained record lies in 10:00-20:00.
InWindow(timestamp) ==
    /\ OpenHour * 3600 <= timestamp % 86400
    /\ timestamp % 86400 < CloseHour * 3600

\* C3: for every pavilion returned by calculate_release_time_distribution
\* and calculate_corrected_distribution, total_releases is the sum of the
\* bucket counts, so the percentages sum to 100 when total_releases > 0.
C3_DenominatorIsInWindowCount ==
    pc \in {"distribution", "corrected"} =>
        \A code \in DOMAIN pavilion_distributions :
            LET result == pavilion_distributions[code] IN
            /\ result.total_releases = CountSum(result)
            /\ result.total_releases > 0 =>
                   PercentageNumSum(result) = 100 * result.total_releases

C5_BucketsCoverWindow ==
    pc = "corrected" =>
        \A code \in DOMAIN pavilion_distributions :
            CountSum(pavilion_distributions[code])
              = Cardinality({k \in 1..Len(filtered_releases[code]) :
                                InWindow(filtered_releases[code][k].timestamp)})

\* C6: in calculate_release_time_distribution the count of the i-th bucket,
\* which starts at 10:00 + (i - 1) * 15 min, is the number of deduplicated
\* events whose time of day t has 10:00 + floor((t - 10:00) / 15 min) * 15 min
\* equal to that start, i.e. lies in [start, start + 15 min).
C6_BucketAssignment ==
    pc = "distribution" =>
        \A code \in DOMAIN pavilion_distributions :
            LET dist == pavilion_distributions[code].distribution IN
            \A i \in 1..Len(dist) :
                LET start == 10 * 3600 + (i - 1) * 15 * 60 IN
                /\ dist[i].label[1] * 3600 + dist[i].label[2] * 60 = start
                /\ dist[i].label[3] * 3600 + dist[i].label[4] * 60 = start + 15 * 60
                /\ dist[i].count
                     = Cardinality({k \in 1..Len(filtered_releases[code]) :
                          LET t == filtered_releases[code][k].timestamp % 86400 IN
                          /\ InWindow(t)
                          /\ 10 * 3600 + ((t - 10 * 3600) \div (15 * 60)) * (15 * 60) = start})
                /\ dist[i].count
                     = Cardinality({k \in 1..Len(filtered_releases[code]) :
                          LET t == filtered_releases[code][k].timestamp % 86400 IN
                          start <= t /\ t < start + 15 * 60})

\* A bucket with two events, one of them in its last second, and another
\* bucket with one.
C6_Witness ==
    /\ pc = "distribution"
    /\ \E code \in DOMAIN pavilion_distributions :
         LET dist == pavilion_distributions[code].distribution IN
         /\ \E i, j \in 1..Len(dist) :
              i # j /\ dist[i].count = 2 /\ dist[j].count = 1
         /\ \E k \in 1..Len(filtered_releases[code]) :
              filtered_releases[code][k].timestamp % (15 * 60) = 15 * 60 - 1

\* label a starts before label b
StartsBefore(a, b) == a[1] < b[1] \/ (a[1] = b[1] /\ a[2] < b[2])

\* C7: the ranked list of generate_distribution_table and of
\* generate_corrected_report holds exactly the buckets with count > 0, each
\* once, in descending percentage, buckets of equal percentage in ascending
\* start time.
C7_RankingOrder ==
    pc \in {"distribution", "corrected"} =>
        /\ DOMAIN sorted_items = DOMAIN pavilion_distributions
        /\ \A code \in DOMAIN sorted_items :
               LET ranked == sorted_items[code]
                   dist == pavilion_distributions[code].distribution
               IN /\ Range(ranked) = {e \in Range(dist) : e.count > 0}
                  /\ Len(ranked) = Cardinality({e \in Range(dist) : e.count > 0})
                  /\ \A k \in 1..(Len(ranked) - 1) :
                         LET a == ranked[k].percentage
                             b == ranked[k + 1].percentage
                         IN /\ a.num * b.den >= b.num * a.den
                            /\ a.num * b.den = b.num * a.den =>
                                   StartsBefore(ranked[k].label, ranked[k + 1].label)

\* A ranked list whose first bucket starts later than its second.
C7_Witness ==
    /\ pc \in {"distribution", "corrected"}
    /\ \E code \in DOMAIN sorted_items :
         /\ Len(sorted_items[code]) >= 2
         /\ StartsBefore(sorted_items[code][2].label, sorted_items[code][1].label)
         /\ sorted_items[code][1].percentage.num > sorted_items[code][2].percentage.num

\* C8: a call of the deduplicator with interval_minutes <= 0 ends in an
\* invalid-configuration error and returns no deduplicated list.
C8_InvalidIntervalRejected ==
    (/\ pc \in {"preprocessed", "predicted"}
     /\ interval_minutes[1] <= 0) =>
        /\ exception # "None"
        /\ DOMAIN filtered_releases = {}

\* The times analyze_daily_release_patterns or analyze_release_patterns kept
\* for a pavilion, over all its dates.
RetainedTimes(pavilion) ==
    UNION {Range(filtered_patterns[pavilion][date]) :
              date \in DOMAIN filtered_patterns[pavilion]}

C10_OnlyReleasesDeduplicated ==
    /\ pc \in {"preprocessed", "distribution"} =>
           \A code \in DOMAIN raw_releases :
               \A r \in Range(raw_releases[code]) : r.status = 0
    /\ pc = "daily" =>
           \A pavilion \in DOMAIN filtered_patterns :
               \A date \in DOMAIN filtered_patterns[pavilion] :
                   \A time \in Range(filtered_patterns[pavilion][date]) :
                       \E item \in Range(data) :
                           /\ item.status = 0
                           /\ item.pavilion_code = pavilion
                           /\ item.date = date
                           /\ item.exact_time = time

\* The status-0 records of a pavilion in the loaded data.
StatusZeroCount(code) ==
    Cardinality({k \in 1..Len(data) :
                    data[k].pavilion_code = code /\ data[k].status = 0})

\* interval_minutes is smaller than every gap between consecutive timestamps
\* of the pavilion's releases.
SmallerThanEveryGap(code) ==
    \A k \in 1..(Len(raw_releases[code]) - 1) :
        interval_minutes[1] * 60
          < raw_releases[code][k + 1].timestamp - raw_releases[code][k].timestamp

\* C11: for every interval_minutes >= 0, preprocess_releases_for_distribution
\* retains for a pavilion at most as many records as the input has status-0
\* records of it, and exactly as many when interval_minutes is smaller than
\* every gap between consecutive timestamps.
C11_MonotonicReduction ==
    (pc = "preprocessed" /\ interval_minutes[1] >= 0) =>
        \A code \in DOMAIN filtered_releases :
            /\ Len(filtered_releases[code]) <= StatusZeroCount(code)
            /\ SmallerThanEveryGap(code) =>
                   Len(filtered_releases[code]) = StatusZeroCount(code)

\* A call with interval 10 on a pavilion whose two releases are further
\* apart, next to records that are no releases.
C11_Witness ==
    /\ pc = "preprocessed"
    /\ interval_minutes[1] = DailyThresholdMinutes
    /\ \E code \in DOMAIN filtered_releases :
         /\ Len(raw_releases[code]) >= 2
         /\ SmallerThanEveryGap(code)
         /\ Len(filtered_releases[code]) = Len(raw_releases[code])
    /\ \E k \in 1..Len(data) : data[k].status # 0

\* The timestamps of a list of records, in the order of the list.
Timestamps(releases) == [k \in 1..Len(releases) |-> releases[k].timestamp]

\* The status-0 records of a pavilion in the loaded data, in data order.
OwnReleases(code) ==
    SelectSeqBy(data, {i \in Range(data) : i.pavilion_code = code /\ i.status = 0})

\* The status-0 events of the pavilion in the loaded data are those at the
\* given times, in any order.
EventsAre(code, times) ==
    /\ Len(OwnReleases(code)) = Len(times)
    /\ {r.timestamp : r \in Range(OwnReleases(code))} = Range(times)

\* C12: for one pavilion with status-0 events at 10:00, 10:05, 10:20 and
\* 10:21 of one day and interval_minutes = 15,
\* preprocess_releases_for_distribution retains exactly the events at 10:00
\* and 10:20.
C12_LastAcceptedScenario ==
    (/\ pc = "preprocessed"
     /\ interval_minutes[1] = 15
     /\ EventsAre("C060", <<Clock(1, 10, 0, 0), Clock(1, 10, 5, 0),
                            Clock(1, 10, 20, 0), Clock(1, 10, 21, 0)>>)) =>
        Timestamps(filtered_releases["C060"])
          = <<Clock(1, 10, 0, 0), Clock(1, 10, 20, 0)>>

\* The scenario, logged out of order, has been deduplicated.
C12_Witness ==
    /\ pc = "preprocessed"
    /\ interval_minutes[1] = 15
    /\ EventsAre("C060", <<Clock(1, 10, 0, 0), Clock(1, 10, 5, 0),
                           Clock(1, 10, 20, 0), Clock(1, 10, 21, 0)>>)
    /\ data[1].timestamp = Clock(1, 10, 21, 0)
    /\ removed_count["C060"] = 2

\* The events 10:00, 10:12 and 10:24 of C060 have been deduplicated by the
\* last-accepted loop with interval 15.
DenseClusterDeduplicated ==
    /\ pc = "preprocessed"
    /\ interval_minutes[1] = 15
    /\ EventsAre("C060", <<Clock(1, 10, 0, 0), Clock(1, 10, 12, 0), Clock(1, 10, 24, 0)>>)

\* C13 as stated: on the events 10:00, 10:12, 10:24 with threshold 15 the
\* last-accepted loop retains 10:00 and 10:24 while the all-retained loop of
\* analyze_daily_release_patterns, run at that threshold, retains 10:00 only.
C13_AllRetainedStricter ==
    DenseClusterDeduplicated =>
        /\ Timestamps(filtered_releases["C060"]) = <<Clock(1, 10, 0, 0), Clock(1, 10, 24, 0)>>
        /\ DedupAllRetained(TimesOf(data, "C060", 1), 15) = <<Clock(1, 10, 0, 0)>>

\* C13, amended: on the events 10:00, 10:12, 10:24 with threshold 15 both
\* loops retain 10:00 and 10:24: the all-retained loop compares 10:24 with
\* the retained 10:00 only, never with the rejected 10:12.
C13_AllRetainedSameOnCluster ==
    DenseClusterDeduplicated =>
        /\ Timestamps(filtered_releases["C060"]) = <<Clock(1, 10, 0, 0), Clock(1, 10, 24, 0)>>
        /\ DedupAllRetained(TimesOf(data, "C060", 1), 15)
             = <<Clock(1, 10, 0, 0), Clock(1, 10, 24, 0)>>

\* The dense cluster, logged out of order, with 10:12 rejected.
C13_Witness ==
    /\ DenseClusterDeduplicated
    /\ data[1].timestamp = Clock(1, 10, 24, 0)
    /\ removed_count["C060"] = 1

\* The least timestamp of a non-empty list of records.
EarliestTimestamp(items) ==
    CHOOSE t \in {i.timestamp : i \in Range(items)} :
        \A i \in Range(items) : t <= i.timestamp

RECURSIVE Ascending(_)
\* The records in ascending order of timestamp, records of one timestamp in
\* the order they have in the list.
Ascending(items) ==
    IF items = <<>> THEN <<>>
    ELSE LET t == EarliestTimestamp(items) IN
         SelectSeqBy(items, {i \in Range(items) : i.timestamp = t})
           \o Ascending(SelectSeqBy(items, {i \in Range(items) : i.timestamp # t}))

\* C19: preprocess_releases_for_distribution never fails on unsorted input,
\* and the retained timestamps of every pavilion are those it retains when
\* the same records are passed in ascending order of timestamp, whatever the
\* order of the input.
C19_DefensiveSorting ==
    pc = "preprocessed" =>
        /\ exception = "None"
        /\ \A code \in Range(target_pavilions) :
               /\ code \in DOMAIN filtered_releases
               /\ Timestamps(filtered_releases[code])
                    = Timestamps(preprocess_releases_for_distribution(
                                     Ascending(data), interval_minutes[1]).filtered_releases[code])
               /\ \A k \in 1..(Len(filtered_releases[code]) - 1) :
                      filtered_releases[code][k].timestamp
                        <= filtered_releases[code][k + 1].timestamp

\* A call with interval 15 on data in descending order that rejected a
\* record and kept two.
C19_Witness ==
    /\ pc = "preprocessed"
    /\ interval_minutes[1] = 15
    /\ Len(data) >= 3
    /\ \A k \in 1..(Len(data) - 1) : data[k].timestamp > data[k + 1].timestamp
    /\ Len(filtered_releases["C060"]) >= 2
    /\ removed_count["C060"] >= 1

\* C20: the records preprocess_releases_for_distribution retains for a
\* pavilion are those it retains when it is given that pavilion's status-0
\* records alone: the records of the other pavilions do not matter.
C20_VenueIndependence ==
    pc = "preprocessed" =>
        \A code \in Range(target_pavilions) :
            /\ filtered_releases[code]
                 = preprocess_releases_for_distribution(
                       OwnReleases(code), interval_minutes[1]).filtered_releases[code]
            /\ Range(filtered_releases[code]) \subseteq Range(OwnReleases(code))

\* Two pavilions with retained records, the later pavilion's record less
\* than the interval after a retained record of the earlier one.
C20_Witness ==
    /\ pc = "preprocessed"
    /\ interval_minutes[1] = 15
    /\ Len(filtered_releases["C060"]) >= 2
    /\ removed_count["C060"] >= 1
    /\ Len(filtered_releases["HEH0"]) = 1
    /\ \E r \in Range(filtered_releases["C060"]) :
         r.timestamp >= filtered_releases["HEH0"][1].timestamp

\* The time of day, in seconds, at which a "HH:MM" starts.
StartOf(hhmm) == hhmm[1] * 3600 + hhmm[2] * 60

\* The retained events of a pavilion whose time of day lies in [from, to).
EventsWithin(code, from, to) ==
    {k \in 1..Len(filtered_releases[code]) :
        /\ from <= filtered_releases[code][k].timestamp % 86400
        /\ filtered_releases[code][k].timestamp % 86400 < to}

\* The 1-minute bucket lies inside the 15-minute bucket of the label.
InsideBucket(minute_label, bucket_label) ==
    /\ bucket_label[1] * 60 + bucket_label[2] <= minute_label[1] * 60 + minute_label[2]
    /\ minute_label[1] * 60 + minute_label[2] < bucket_label[3] * 60 + bucket_label[4]

\* The buckets of a result that have a count, in the result's order.
CountedBuckets(result) ==
    LET Counted(e) == e.count > 0 IN SelectSeq(result.distribution, Counted)

\* The sum of the counts of a list of buckets.
BucketCountSum(buckets) == SumSeq([i \in 1..Len(buckets) |-> buckets[i].count])

\* The ranking of the 15-minute buckets of a pavilion's retained events.
CoarseRanking(code) ==
    RankedItems(DistributionOf(filtered_releases[code]).distribution)

\* Every bucket of a 1-minute distribution lies inside the pavilion's
\* top-ranked 15-minute bucket, and its counts are the events inside it.
RestrictedToTopBucket(code, result) ==
    CoarseRanking(code) # <<>> =>
        LET top == CoarseRanking(code)[1].label IN
        /\ \A i \in 1..Len(result.distribution) :
               InsideBucket(result.distribution[i].label, top)
        /\ BucketCountSum(CountedBuckets(result))
             = Cardinality(EventsWithin(code, top[1] * 3600 + top[2] * 60,
                                        top[3] * 3600 + top[4] * 60))

\* C14 as stated: the 1-minute distributions of
\* calculate_detailed_ireland_distribution and
\* save_minute_interval_distributions_json are restricted to the 15-minute
\* interval of the pavilion's most frequent coarse bucket.
C14_FinePassInTopBucket ==
    /\ pc = "detailed" =>
           \A code \in DOMAIN detailed_distributions :
               RestrictedToTopBucket(code, detailed_distributions[code])
    /\ pc = "ireland" =>
           \A code \in DOMAIN minute_distributions :
               RestrictedToTopBucket(code, minute_distributions[code])

\* C14, amended: the 1-minute distributions are not restricted to the top
\* coarse bucket but range over the whole window: every bucket is a minute
\* of 10:00-19:59, its count is the number of retained events of the
\* pavilion in that minute, and every retained event of 10:00-20:00 is
\* counted, in whatever coarse bucket it lies.
C14_FinePassOverWholeWindow ==
    /\ pc = "detailed" =>
           \A code \in DOMAIN detailed_distributions :
               LET result == detailed_distributions[code] IN
               /\ \A i \in 1..Len(result.distribution) :
                      LET e == result.distribution[i] IN
                      /\ 10 * 3600 <= StartOf(e.label) /\ StartOf(e.label) < 20 * 3600
                      /\ e.count = Cardinality(EventsWithin(code, StartOf(e.label),
                                                            StartOf(e.label) + 60))
               /\ BucketCountSum(CountedBuckets(result))
                    = Cardinality(EventsWithin(code, 10 * 3600, 20 * 3600))
    /\ pc = "ireland" =>
           \A code \in DOMAIN minute_distributions :
               LET result == minute_distributions[code] IN
               /\ \A i \in 1..Len(result.distribution) :
                      LET e == result.distribution[i] IN
                      /\ 10 * 3600 <= StartOf(e.label) /\ StartOf(e.label) < 20 * 3600
                      /\ e.count = Cardinality(EventsWithin(code, StartOf(e.label),
                                                            StartOf(e.label) + 60))
               /\ BucketCountSum(CountedBuckets(result))
                    = Cardinality(EventsWithin(code, 10 * 3600, 20 * 3600))

\* A 1-minute distribution with two events in 10:00, the top coarse bucket
\* being 10:00~10:15, and one event in 10:16, outside it.
C14_Witness ==
    /\ pc = "ireland"
    /\ \E code \in DOMAIN minute_distributions :
         LET dist == minute_distributions[code].distribution IN
         /\ CoarseRanking(code)[1].label = <<10, 0, 10, 15>>
         /\ \E i, j \in 1..Len(dist) :
              /\ dist[i].label = <<10, 0>> /\ dist[i].count = 2
              /\ dist[j].label = <<10, 16>> /\ dist[j].count = 1

\* The sum of the counts of those of the 1-minute buckets that lie inside a
\* 15-minute bucket.
FineCountInside(buckets, bucket_label) ==
    LET Inside(e) == InsideBucket(e.label, bucket_label) IN
    BucketCountSum(SelectSeq(buckets, Inside))

\* C15: the 1-minute distribution of calculate_detailed_ireland_distribution
\* is computed from the events the 15-minute deduplication retained: for
\* every pavilion of its result, total_releases is the total_releases of
\* calculate_release_time_distribution for the same data, and the 1-minute
\* counts inside each 15-minute bucket sum to that bucket's count.
C15_FinePassReusesDeduplicatedSet ==
    pc = "detailed" =>
        /\ DOMAIN detailed_distributions
             = DOMAIN pavilion_distributions \cap Range(ireland_pavilions)
        /\ \A code \in DOMAIN detailed_distributions :
               LET fine == detailed_distributions[code]
                   coarse == pavilion_distributions[code]
                   counted == CountedBuckets(fine)
               IN /\ fine.total_releases = coarse.total_releases
                  /\ \A i \in 1..Len(coarse.distribution) :
                         FineCountInside(counted, coarse.distribution[i].label)
                           = coarse.distribution[i].count

\* The coarse pass rejected a record that lies a minute or more after the
\* retained one, and the 1-minute pass of the same data has run.
C15_Witness ==
    /\ pc = "detailed"
    /\ \E code \in DOMAIN detailed_distributions :
         /\ detailed_distributions[code].total_releases >= 2
         /\ \E k \in 1..(Len(raw_releases[code]) - 1) :
              /\ raw_releases[code][k + 1].timestamp - raw_releases[code][k].timestamp >= 60
              /\ raw_releases[code][k + 1].timestamp - raw_releases[code][k].timestamp < 15 * 60
         /\ removed_count[code] >= 1

\* The i-th 15-minute bucket of 10:00-20:00, as a label.
NthBucketLabel(i) ==
    LET start == 10 * 60 + (i - 1) * 15
        end == start + 15
    IN <<start \div 60, start % 60, end \div 60, end % 60>>

\* C16: for every pavilion returned by calculate_release_time_distribution
\* and calculate_corrected_distribution the distribution holds all 40
\* buckets from 10:00~10:15 to 19:45~20:00, in ascending order, those of
\* count 0 included.
C16_CompleteBucketMap ==
    pc \in {"distribution", "corrected"} =>
        \A code \in DOMAIN pavilion_distributions :
            LET dist == pavilion_distributions[code].distribution IN
            /\ Len(dist) = 40
            /\ \A i \in 1..40 : dist[i].label = NthBucketLabel(i)
            /\ dist[1].label = <<10, 0, 10, 15>>
            /\ dist[40].label = <<19, 45, 20, 0>>

\* A distribution whose first 39 buckets have count 0 and whose last has 1.
C16_Witness ==
    /\ pc = "distribution"
    /\ \E code \in DOMAIN pavilion_distributions :
         LET dist == pavilion_distributions[code].distribution IN
         /\ dist[40].count = 1
         /\ \A i \in 1..39 : dist[i].count = 0

\* The labels of the distribution save_minute_interval_distributions_json
\* stored for a pavilion.
SavedLabels(code) ==
    {minute_distributions[code].distribution[i].label :
        i \in 1..Len(minute_distributions[code].distribution)}

\* C17 as stated: for every pavilion in the result of
\* save_minute_interval_distributions_json the distribution holds every
\* 1-minute bucket of 10:00-20:00, those of count 0 included.
C17_CompleteMinuteMap ==
    pc = "ireland" =>
        \A code \in DOMAIN minute_distributions :
            \A hour \in 10..19, minute \in 0..59 :
                <<hour, minute>> \in SavedLabels(code)

\* C17, amended: the distribution save_minute_interval_distributions_json
\* stores for a pavilion holds exactly the 1-minute buckets of 10:00-20:00
\* with count > 0, each once; the buckets of count 0 are left out, and so is
\* a pavilion without a retained event in 10:00-20:00.
C17_OnlyNonZeroMinutes ==
    pc = "ireland" =>
        /\ \A code \in Range(ireland_pavilions) :
               code \in DOMAIN minute_distributions
                 <=> EventsWithin(code, 10 * 3600, 20 * 3600) # {}
        /\ \A code \in DOMAIN minute_distributions :
               LET dist == minute_distributions[code].distribution IN
               /\ \A i \in 1..Len(dist) : dist[i].count > 0
               /\ \A i, j \in 1..Len(dist) : dist[i].label = dist[j].label => i = j
               /\ SavedLabels(code)
                    = {<<HourOf(filtered_releases[code][k].timestamp),
                         MinuteOf(filtered_releases[code][k].timestamp)>> :
                          k \in EventsWithin(code, 10 * 3600, 20 * 3600)}

\* A stored distribution of two buckets for three retained events, one of
\* them outside 10:00-20:00.
C17_Witness ==
    /\ pc = "ireland"
    /\ \E code \in DOMAIN minute_distributions :
         /\ Len(minute_distributions[code].distribution) = 2
         /\ minute_distributions[code].total_releases = 3
         /\ Cardinality(EventsWithin(code, 10 * 3600, 20 * 3600)) = 2

\* C18: in calculate_release_time_distribution a retained event at exactly
\* 10:00 is counted in the first bucket, and an event before 10:00 or at or
\* after 20:00 is counted in no bucket.
C18_HalfOpenWindow ==
    pc = "distribution" =>
        \A code \in DOMAIN pavilion_distributions :
            LET result == pavilion_distributions[code] IN
            /\ result.distribution[1].count
                 >= Cardinality(EventsWithin(code, 10 * 3600, 10 * 3600 + 1))
            /\ CountSum(result)
                 = Len(filtered_releases[code])
                     - Cardinality(EventsWithin(code, 0, 10 * 3600))
                     - Cardinality(EventsWithin(code, 20 * 3600, 24 * 3600))

\* Retained events one second before 10:00, at exactly 10:00 of another
\* date and at exactly 20:00.
C18_Witness ==
    /\ pc = "distribution"
    /\ \E code \in DOMAIN pavilion_distributions :
         /\ EventsWithin(code, 10 * 3600 - 1, 10 * 3600) # {}
         /\ EventsWithin(code, 10 * 3600, 10 * 3600 + 1) # {}
         /\ EventsWithin(code, 20 * 3600, 20 * 3600 + 1) # {}
         /\ pavilion_distributions[code].distribution[1].count = 1

\* The pass of the loop body about to run rejects its release (line 141).
Rejects ==
    /\ pc = "dedup"
    /\ removed_count' # removed_count

\* The rejected release lies less than the interval after the release last
\* appended to the pavilion's retained list.
RejectedAfterLastAccepted ==
    LET pavilion_code == Head(pending_pavilions)
        t == raw_releases[pavilion_code][release_index + 1].timestamp
    IN /\ filtered_releases[pavilion_code] # <<>>
       /\ last_accepted_time = <<Last(filtered_releases[pavilion_code]).timestamp>>
       /\ 0 <= t - last_accepted_time[1]
       /\ t - last_accepted_time[1] < interval_minutes[1] * SecondsPerMinute

\* Every status-0 record of every pavilion lies in [r, r + interval) for
\* some record r of the pavilion's retained list.
EveryReleaseCovered ==
    \A code \in DOMAIN raw_releases :
        \A k \in 1..Len(raw_releases[code]) :
            \E j \in 1..Len(filtered_releases[code]) :
                LET t == raw_releases[code][k].timestamp
                    r == filtered_releases[code][j].timestamp
                IN /\ r <= t
                   /\ t < r + interval_minutes[1] * SecondsPerMinute

\* C22: whenever the last-accepted loop rejects a record, its timestamp t
\* satisfies 0 <= t - last_release_time < interval, last_release_time being
\* the timestamp of the last record appended to the retained list; hence,
\* when the loop has finished, every status-0 input record lies in
\* [r, r + interval) for some retained record r.
C22_RejectedCoveredByLastAccepted ==
    [][/\ Rejects => RejectedAfterLastAccepted
       /\ pc' = "preprocessed" => EveryReleaseCovered']_vars

RECURSIVE IsSubsequence(_, _)
\* s is t with some of its elements left out.
IsSubsequence(s, t) ==
    IF s = <<>> THEN TRUE
    ELSE IF t = <<>> THEN FALSE
    ELSE IF Head(s) = Head(t) THEN IsSubsequence(Tail(s), Tail(t))
    ELSE IsSubsequence(s, Tail(t))

\* C21: the list preprocess_releases_for_distribution returns for a pavilion
\* is a subsequence of the pavilion's status-0 input records in ascending
\* order of timestamp, each retained record with the timestamp, time_slot
\* and pavilion_code it has in the input, and the caller's list is as it was
\* before the call.
C21_RetainedRecordsUnmodified ==
    pc = "preprocessed" =>
        /\ data = load_and_process_data(log, PAVILION_NAMES, None, None)
        /\ \A code \in DOMAIN filtered_releases :
               /\ IsSubsequence(filtered_releases[code], Ascending(OwnReleases(code)))
               /\ \A k \in 1..Len(filtered_releases[code]) :
                      \E i \in 1..Len(data) :
                          LET kept == filtered_releases[code][k] IN
                          /\ data[i].status = 0
                          /\ kept.timestamp = data[i].timestamp
                          /\ kept.time_slot = data[i].time_slot
                          /\ kept.pavilion_code = data[i].pavilion_code
                          /\ kept.pavilion_code = code

\* A call on unsorted data with a record that is no release and a time that
\* is no whole minute; a record is rejected and that of 10:00:59 is kept.
C21_Witness ==
    /\ pc = "preprocessed"
    /\ interval_minutes[1] = DailyThresholdMinutes
    /\ Len(data) = 3
    /\ data[1].timestamp > data[2].timestamp
    /\ data[3].status = 1
    /\ removed_count["C060"] = 1
    /\ Len(filtered_releases["C060"]) = 1
    /\ filtered_releases["C060"][1].timestamp = Clock(1, 10, 0, 59)
    /\ filtered_releases["C060"][1].time_slot = "1200"

\* The number of status-0 records of the pavilion in the log.
LoggedReleaseCount(code) ==
    Cardinality({i \in 1..Len(log) : log[i].pavilion_code = code /\ log[i].status = 0})

\* C24: after preprocess_releases_for_distribution or
\* preprocess_releases_for_prediction, for every pavilion
\* len(raw_releases) = len(filtered_releases) + removed_count, raw_releases
\* holding every status-0 record of the pavilion: each is either retained or
\* counted as removed, exactly once.
C24_ConservationOfEvents ==
    pc \in {"preprocessed", "predicted"} =>
        \A code \in DOMAIN raw_releases :
            /\ Len(raw_releases[code]) = LoggedReleaseCount(code)
            /\ Len(raw_releases[code])
                 = Len(filtered_releases[code]) + removed_count[code]

\* Three releases of a pavilion, two of them at one timestamp: one kept,
\* two counted as removed.
C24_Witness ==
    /\ pc = "preprocessed"
    /\ Len(raw_releases["C060"]) = 3
    /\ raw_releases["C060"][1].timestamp = raw_releases["C060"][2].timestamp
    /\ raw_releases["C060"][2].timestamp # raw_releases["C060"][3].timestamp
    /\ Len(filtered_releases["C060"]) = 1
    /\ removed_count["C060"] = 2

\* The records of a pavilion and a date in the loaded data.
RecordsOf(pavilion, date) ==
    SelectSeqBy(data, {i \in Range(data) : i.pavilion_code = pavilion /\ i.date = date})

FirstInInput(code, t) ==
    LET releases == OwnReleases(code)
        first == CHOOSE i \in 1..Len(releases) :
                     /\ releases[i].timestamp = t
                     /\ \A j \in 1..(i - 1) : releases[j].timestamp # t
    IN releases[first]

\* C28: with interval_minutes > 0, of the status-0 records of a pavilion
\* with one timestamp preprocess_releases_for_distribution retains at most
\* one, and it is the one that comes first in the input list, so that the
\* time_slot retained is that of the first.
C28_TieHandling ==
    (pc = "preprocessed" /\ interval_minutes[1] > 0) =>
        \A code \in DOMAIN filtered_releases :
            \A k \in 1..Len(filtered_releases[code]) :
                LET kept == filtered_releases[code][k] IN
                /\ \A j \in 1..Len(filtered_releases[code]) :
                       filtered_releases[code][j].timestamp = kept.timestamp => j = k
                /\ kept = FirstInInput(code, kept.timestamp)

\* Two releases of C060 at one timestamp, the one of time_slot 1200 before
\* the one of time_slot 1100 in the input list: the record of time_slot 1200
\* is retained.
C28_Witness ==
    /\ pc = "preprocessed"
    /\ interval_minutes[1] = DailyThresholdMinutes
    /\ Len(OwnReleases("C060")) = 2
    /\ OwnReleases("C060")[1].timestamp = OwnReleases("C060")[2].timestamp
    /\ OwnReleases("C060")[1].time_slot = "1200"
    /\ OwnReleases("C060")[2].time_slot = "1100"
    /\ filtered_releases["C060"] = <<OwnReleases("C060")[1]>>
    /\ removed_count["C060"] = 1

\* The second-resolution timestamps of the records of the pavilion and the
\* date that load_and_process_data cut to the minute-resolution time.
OriginalTimestamps(pavilion, date, exact_time) ==
    {i.timestamp : i \in {j \in Range(RecordsOf(pavilion, date)) :
                              j.exact_time = exact_time}}

\* C29: any two events of one pavilion and one date that
\* analyze_daily_release_patterns retains have original second-resolution
\* timestamps that differ by at least 600 seconds.
C29_RealTimestampsSeparated ==
    pc = "daily" =>
        \A pavilion \in DOMAIN filtered_patterns :
            \A date \in DOMAIN filtered_patterns[pavilion] :
                LET times == filtered_patterns[pavilion][date] IN
                \A k \in 1..Len(times) : \A j \in (k + 1)..Len(times) :
                    \E a \in OriginalTimestamps(pavilion, date, times[k]) :
                        \E b \in OriginalTimestamps(pavilion, date, times[j]) :
                            b - a >= DailyThresholdMinutes * SecondsPerMinute

\* C23: on the ascending timestamps of the releases of one pavilion within
\* one date and with a threshold > 0, the all-retained loop of
\* analyze_daily_release_patterns keeps exactly the timestamps the
\* last-accepted loop of preprocess_releases_for_distribution retains.
C23_PoliciesCoincideOnSortedInput ==
    (pc = "preprocessed" /\ interval_minutes[1] > 0) =>
        \A code \in DOMAIN filtered_releases :
            LET times == Timestamps(raw_releases[code]) IN
            /\ \A k \in 1..Len(times) : DateOf(times[k]) = DateOf(times[1])
            /\ \A k \in 1..(Len(times) - 1) : times[k] <= times[k + 1]
            /\ FilterTimes(times, <<>>, interval_minutes[1])
                 = Timestamps(filtered_releases[code])

\* The events 10:00, 10:05, 10:12 and 10:24 of C060 with threshold 10: both
\* loops reject 10:05 alone.
C23_Witness ==
    /\ pc = "preprocessed"
    /\ interval_minutes[1] = DailyThresholdMinutes
    /\ EventsAre("C060", <<Clock(1, 10, 0, 0), Clock(1, 10, 5, 0),
                           Clock(1, 10, 12, 0), Clock(1, 10, 24, 0)>>)
    /\ removed_count["C060"] = 1
    /\ FilterTimes(Timestamps(raw_releases["C060"]), <<>>, DailyThresholdMinutes)
         = <<Clock(1, 10, 0, 0), Clock(1, 10, 12, 0), Clock(1, 10, 24, 0)>>

\* C26: for every prefix of the ascending releases of a pavilion, the list
\* the last-accepted loop retains from the prefix is a prefix of the list it
\* retains from all of them.
C26_OnlinePrefixProperty ==
    pc = "preprocessed" =>
        \A code \in DOMAIN filtered_releases :
            \A n \in 0..Len(raw_releases[code]) :
                LET retained == DedupLastAccepted(SubSeq(raw_releases[code], 1, n),
                                                  interval_minutes[1]).filtered
                IN /\ Len(retained) <= Len(filtered_releases[code])
                   /\ retained = SubSeq(filtered_releases[code], 1, Len(retained))

\* The events 10:00, 10:05, 10:20 and 10:21 of C060 with interval 15: the
\* prefix 10:00, 10:05 retains 10:00 alone, all four retain 10:00 and 10:20.
C26_Witness ==
    /\ pc = "preprocessed"
    /\ interval_minutes[1] = DefaultIntervalMinutes
    /\ EventsAre("C060", <<Clock(1, 10, 0, 0), Clock(1, 10, 5, 0),
                           Clock(1, 10, 20, 0), Clock(1, 10, 21, 0)>>)
    /\ Len(DedupLastAccepted(SubSeq(raw_releases["C060"], 1, 2),
                             DefaultIntervalMinutes).filtered) = 1
    /\ Len(filtered_releases["C060"]) = 2
    /\ filtered_releases["C060"][2].timestamp = Clock(1, 10, 20, 0)

\* C25: for every pavilion calculate_release_time_distribution returns, the
\* bucket counts sum to at most total_releases, every percentage lies in
\* [0, 100], and the counts sum to total_releases exactly when every
\* deduplicated event of the pavilion has its time of day in [10:00, 20:00).
C25_CountsWithinDenominator ==
    pc = "distribution" =>
        \A code \in DOMAIN pavilion_distributions :
            LET result == pavilion_distributions[code]
                counted == BucketCountSum(CountedBuckets(result))
            IN /\ counted <= result.total_releases
               /\ \A i \in 1..Len(result.distribution) :
                      LET percentage == result.distribution[i].percentage IN
                      /\ percentage.den > 0
                      /\ 0 <= percentage.num
                      /\ percentage.num <= 100 * percentage.den
               /\ counted = result.total_releases
                    <=> \A k \in 1..Len(filtered_releases[code]) :
                            InWindow(filtered_releases[code][k].timestamp)

\* A pavilion with a retained event in the window and one at 20:00:00: the
\* counts sum to 1 and total_releases is 2.
C25_Witness ==
    /\ pc = "distribution"
    /\ \E code \in DOMAIN pavilion_distributions :
         /\ pavilion_distributions[code].total_releases = 2
         /\ BucketCountSum(CountedBuckets(pavilion_distributions[code])) = 1
         /\ EventsWithin(code, CloseHour * SecondsPerHour, SecondsPerDay) # {}

====
